---- MODULE Spec2Model ----
(***************************************************************************)
(* Model of the version-3 server path of sing-shadowtls:                   *)
(*   - Service.NewConnection (case 3)            src/unnamed/part_000      *)
(*   - extractFrame, verifyClientHello, extractServerRandom,               *)
(*     isServerHelloSupportTLS13, copyByFrameUntilHMACMatches,             *)
(*     copyByFrameWithModification                src/v3_server.go         *)
(*   - verifiedConn (Read, Write, write, WriteBuffer, WriteVectorised,     *)
(*     verifyApplicationData, sendAlert)          src/v3_conn.go           *)
(*                                                                         *)
(* Byte strings are kept run-length encoded: a sequence of <<byte, count>> *)
(* runs with count >= 1 and no two adjacent runs of the same byte, so two  *)
(* byte strings are equal iff their encodings are equal, and a payload of  *)
(* 20000 or 65535 bytes is a short value.                                  *)
(***************************************************************************)
EXTENDS Integers, Sequences, FiniteSets, TLC

\* ------------------------------------------------------------------------
\* Byte strings ([]byte, buf.Buffer contents)
\* ------------------------------------------------------------------------

Empty == <<>>

Run(b, n) == IF n <= 0 THEN <<>> ELSE << <<b, n>> >>

\* append(a, b...)
BCat(a, b) ==
  IF a = <<>> THEN b
  ELSE IF b = <<>> THEN a
  ELSE IF a[Len(a)][1] = b[1][1]
       THEN SubSeq(a, 1, Len(a) - 1)
              \o << <<b[1][1], a[Len(a)][2] + b[1][2]>> >>
              \o SubSeq(b, 2, Len(b))
       ELSE a \o b

RECURSIVE BLen(_)
\* len(s)
BLen(s) == IF s = <<>> THEN 0 ELSE s[1][2] + BLen(Tail(s))

RECURSIVE BTake(_, _)
\* s[:k]  (the whole of s when k >= len(s))
BTake(s, k) ==
  IF k <= 0 \/ s = <<>> THEN <<>>
  ELSE IF s[1][2] <= k THEN <<s[1]>> \o BTake(Tail(s), k - s[1][2])
  ELSE << <<s[1][1], k>> >>

RECURSIVE BDrop(_, _)
\* s[k:]  (empty when k >= len(s))
BDrop(s, k) ==
  IF s = <<>> THEN <<>>
  ELSE IF k <= 0 THEN s
  ELSE IF s[1][2] <= k THEN BDrop(Tail(s), k - s[1][2])
  ELSE << <<s[1][1], s[1][2] - k>> >> \o Tail(s)

\* s[i:j]
BSub(s, i, j) == BTake(BDrop(s, i), j - i)

\* s[i], 0-based; only used with i < len(s)
BAt(s, i) == BDrop(s, i)[1][1]

RECURSIVE BFrom(_)
\* a byte string from a plain sequence of byte values
BFrom(seq) == IF seq = <<>> THEN <<>> ELSE BCat(Run(seq[1], 1), BFrom(Tail(seq)))

IsPrefix(a, b) == BLen(a) <= BLen(b) /\ BTake(b, BLen(a)) = a

\* binary.BigEndian.Uint16
Uint16(s) == BAt(s, 0) * 256 + BAt(s, 1)

\* binary.BigEndian.PutUint16 of a uint16 conversion: the value wraps at 2^16
PutUint16(v) == BCat(Run((v % 65536) \div 256, 1), Run(v % 256, 1))

\* ------------------------------------------------------------------------
\* Protocol constants
\* ------------------------------------------------------------------------

tlsHeaderSize == 5
tlsRandomSize == 32
tlsSessionIDSize == 32
hmacSize == 4
tlsHmacHeaderSize == 9
sessionIDLengthIndex == 43
serverRandomIndex == 11
handshake == 22
applicationData == 23
alert == 21
clientHello == 1
serverHello == 2
\* the fragment size of verifiedConn.Write
MaxFragment == 16384
\* recordSize in sendAlert
alertRecordSize == 31

\* ------------------------------------------------------------------------
\* HMAC-SHA1 (crypto/hmac): a keyed running hash over the bytes written so
\* far.  The state is a number; Write folds bytes into it, one byte b
\* taking h to (h * HA + b + 1) % HM, so that Write(a); Write(b) equals
\* Write(a . b); Sum does not change the state.
\* ------------------------------------------------------------------------

HM == 32749
HA == 131

MulMod(x, y) == (x * y) % HM

Sq(x) == MulMod(x, x)

\* <<HA^(2n), 1 + ... + HA^(2n-1)>> from pg = <<HA^n, 1 + ... + HA^(n-1)>>
PGDouble(pg) == <<Sq(pg[1]), MulMod(pg[2], (1 + pg[1]) % HM)>>

\* <<HA^(n+1), 1 + ... + HA^n>> from pg = <<HA^n, 1 + ... + HA^(n-1)>>
PGNext(pg) == <<MulMod(HA, pg[1]), (1 + MulMod(HA, pg[2])) % HM>>

RECURSIVE PG(_)
\* <<HA^n mod HM, (1 + HA + ... + HA^(n-1)) mod HM>>
PG(n) ==
  IF n = 0 THEN <<1, 0>>
  ELSE IF n % 2 = 0 THEN PGDouble(PG(n \div 2))
  ELSE PGNext(PG(n - 1))

\* h * pg[1] + (b + 1) * pg[2]
HApply(h, b, pg) == (MulMod(h, pg[1]) + MulMod(b + 1, pg[2])) % HM

\* the hash after writing one run of n bytes b
HWriteRun(h, b, n) == HApply(h, b, PG(n))

RECURSIVE HWrite(_, _)
\* hash.Hash.Write(p), run by run; h is a residue mod HM (a nil hash is left nil)
HWrite(h, p) ==
  IF p = <<>> \/ h \notin 0..(HM - 1) THEN h
  ELSE HWrite(HWriteRun(h, p[1][1], p[1][2]), Tail(p))

\* hmac.New(sha1.New, []byte(password)); also the state after Reset()
HNew(password) == (7919 * (password + 1)) % HM

\* hash.Hash.Sum(nil)[:4]
Sum4(h) ==
  BFrom(<< h \div 256, h % 256, (h \div 16) % 256, (h * 3 + 1) % 256 >>)


\* ------------------------------------------------------------------------
\* State
\* ------------------------------------------------------------------------

VARIABLES
  \* verifiedConn fields
  hmacAdd,       \* c.hmacAdd: state of the outbound chain
  hmacVerify,    \* c.hmacVerify: state of the inbound chain
  hmacIgnore,    \* c.hmacIgnore: state of the ignore chain, NoHash when nil
  buffer,        \* c.buffer: [set |-> it is non-nil, data |-> its unread bytes]
  \* the client connection (conn / c.Conn)
  clientIn,      \* bytes the peer has sent that the server has not read yet
  clientClosed,  \* the peer has closed its sending side (reads end after clientIn)
  toClient,      \* every write handed to the client connection, in order:
                 \* [data, ok (the write succeeded), op, acc (ghost: a verifier
                 \*  seeded like hmacAdd accepted it)]
  \* verifiedConn.Read in progress
  rpc,           \* "idle", or "loop": inside the for loop, at io.ReadFull
  rwant,         \* len(b) of the Read in progress
  nReads,        \* Read calls made so far
  \* ghosts of the read side
  delivered,     \* every byte Read has returned to its caller, in order
  accepted,      \* payloads (offset 9 onward) of the records that passed hmacVerify
  rlast,         \* what the last completed step of Read did
  \* ghosts of the peer
  peerAdd,       \* the chain with which the peer tags the records it sends
  peerIgn,       \* the chain with which echoed cover records were tagged
  peerVerify,    \* the chain of a verifier seeded like hmacAdd
  nPeer,         \* records the peer has sent so far
  \* ghost of the write side
  wlast,         \* what the last write operation did
  \* goroutines writing concurrently
  writers,       \* [pend: per goroutine, the record it has chained into hmacAdd
                 \*  and not yet handed to the connection, with its number;
                 \*  count: records chained so far;
                 \*  emitted (ghost): the numbers of the records handed to the
                 \*  connection, in order]
  \* Service.NewConnection, version 3
  spc,           \* where the orchestrator is: "readClientHello", "readServerHello",
                 \* "fallback", "relay", "handler", "returned"; "conn" or "stream" when a
                 \* verifiedConn is studied on its own
  result,        \* what NewConnection returned, "" while it runs
  coverIn,       \* bytes the cover has sent that the server has not read yet
  coverEnd,      \* "open", or how the cover ended its side: "eof", "reset"
  toCover,       \* the bytes written to handshakeConn, in order
  closeCalls,    \* ghost: who called handshakeConn.Close(), in order
  ctxDone,       \* the caller's context was cancelled
  serverRandom,  \* the server random extracted from the ServerHello
  hmacWrite,     \* the chain of the cover-to-client rewrite
  c2s,           \* "client handshake relay": "idle", "run", "matched", "ok", "err"
  s2c,           \* "server handshake relay": "idle", "run", "ok", "err"
  handshakeFinished,
  clientFirstFrame,  \* [set, data]
  cache,         \* unread bytes of the CachedConn given to the handler
  \* ghosts of the session
  clientSent,    \* every byte the client has sent
  coverSent,     \* every byte the cover has sent
  nCover,        \* records the cover has sent so far
  events,        \* the milestones of the session, in order
  rewrites,      \* the cover records rewritten: [p (masked payload), tag]
  s2cEnd         \* how copyByFrameWithModification ended: [cause, closed (the
                 \* error is a closed-or-cancelled one), finished (the value of
                 \* handshakeFinished the task read)]

connVars == <<hmacAdd, hmacVerify, hmacIgnore, buffer>>
wireVars == <<clientIn, clientClosed, toClient>>
readVars == <<rpc, rwant, nReads, delivered, accepted, rlast>>
peerVars == <<peerAdd, peerIgn, peerVerify, nPeer, clientSent>>
sessVars == <<spc, result, coverIn, coverEnd, toCover, closeCalls, ctxDone, serverRandom,
              hmacWrite,
              c2s, s2c, handshakeFinished, clientFirstFrame, cache,
              coverSent, nCover, events, rewrites, s2cEnd>>
vars == <<connVars, wireVars, readVars, peerVars, wlast, writers, sessVars>>

\* a nil hash.Hash
NoHash == 0 - 1

\* goroutines that write to one verifiedConn
Writers == {1, 2}

\* no write is in progress
NoWriters == [pend |-> [w \in Writers |-> [n |-> 0, frame |-> Empty, op |-> ""]],
              count |-> 0, emitted |-> <<>>]

\* ghost: the error copyByFrameWithModification returned
S2CEnd(cause, closed, finished) == [cause |-> cause, closed |-> closed, finished |-> finished]

\* a nil *buf.Buffer
NilBuffer == [set |-> FALSE, data |-> Empty]

\* ------------------------------------------------------------------------
\* Bounds and the inputs drawn
\* ------------------------------------------------------------------------

MaxReads == 3
MaxPeer == 2
MaxOut == 3

Password == 1
ServerRandom == BCat(Run(17, 16), Run(34, 16))

\* hmac.New(password) fed the server random
SeedAdd == HWrite(HNew(Password), ServerRandom)
\* ... fed the server random and "C"
SeedVerify == HWrite(SeedAdd, Run(67, 1))
\* ... fed the server random and "S"
SeedIgnore == HWrite(SeedAdd, Run(83, 1))

\* len(b) of a Read
ReadSizes == {1, 4}
\* payloads of the records the peer sends
PeerPayloads == {Empty, Run(5, 1), BFrom(<<6, 7, 8>>)}
\* the random bytes of an alert record
RandBytes == {Run(90, alertRecordSize - tlsHeaderSize)}

\* ------------------------------------------------------------------------
\* Records
\* ------------------------------------------------------------------------

\* header[0..5) of verifiedConn.write / WriteBuffer / WriteVectorised:
\* applicationData, 3, 3, hmacSize + uint16(n)
DataHeader(n) ==
  BCat(BFrom(<<applicationData, 3, 3>>), PutUint16(hmacSize + (n % 65536)))

\* a tunneled record: header, tag, payload
DataRecord(tag, p) == BCat(BCat(DataHeader(BLen(p)), tag), p)

\* the record sendAlert builds: alert, 3, 3, 0, recordSize - tlsHeaderSize, random
AlertRecord(r) ==
  BCat(BFrom(<<alert, 3, 3, 0, alertRecordSize - tlsHeaderSize>>), r)

\* a verifyApplicationData that leaves the hash untouched when update is false
verifyApplicationDataReadOnly(frame, h, update) ==
  IF BAt(frame, 1) # 3 \/ BAt(frame, 2) # 3 \/ BLen(frame) < tlsHmacHeaderSize
  THEN [ok |-> FALSE, h |-> h]
  ELSE LET h1 == HWrite(h, BDrop(frame, tlsHmacHeaderSize))
           hmacHash == Sum4(h1)
       IN [ok |-> BSub(frame, tlsHeaderSize, tlsHeaderSize + hmacSize) = hmacHash,
           h |-> IF update THEN HWrite(h1, hmacHash) ELSE h]

\* verifyApplicationData(frame, hmac, update): [ok, h (the chain afterwards)]
verifyApplicationData(frame, h, update) ==
  IF BAt(frame, 1) # 3 \/ BAt(frame, 2) # 3 \/ BLen(frame) < tlsHmacHeaderSize
  THEN [ok |-> FALSE, h |-> h]
  ELSE LET h1 == HWrite(h, BDrop(frame, tlsHmacHeaderSize))
           hmacHash == Sum4(h1)
       IN [ok |-> BSub(frame, tlsHeaderSize, tlsHeaderSize + hmacSize) = hmacHash,
           h |-> IF update THEN HWrite(h1, hmacHash) ELSE h1]

\* the operations that emit tunneled records
DataOps == {"Write", "WriteBuffer", "WriteVectorised"}

\* one entry of toClient
OutEntry(data, ok, op, acc) == [data |-> data, ok |-> ok, op |-> op, acc |-> acc]

\* sendAlert(writer): nothing is written when rand.Read fails; the error of
\* writer.Write is dropped
sendAlert(log, randOK, writeOK, r) ==
  IF randOK THEN Append(log, OutEntry(AlertRecord(r), writeOK, "alert", FALSE))
  ELSE log

\* buf.Buffer.Read(b) on unread bytes d: [n bytes returned, the rest, err]
BufferRead(d, want) ==
  IF d = Empty THEN [out |-> Empty, rest |-> Empty, err |-> "EOF"]
  ELSE [out |-> BTake(d, want), rest |-> BDrop(d, want), err |-> "nil"]

\* ------------------------------------------------------------------------
\* verifiedConn.Read
\* ------------------------------------------------------------------------

\* ghost: the outcome of a step of Read, the error and bytes it returned,
\* whether it called sendAlert, whether that handed a record to the
\* connection, and whether that write succeeded
RLast(outcome, err, out, called, randOK, writeOK) ==
  [outcome |-> outcome, err |-> err, out |-> out, called |-> called,
   wrote |-> called /\ randOK, sendOK |-> called /\ randOK /\ writeOK]

\* Read calls of the reader of a writer's stream: enough to take a rejected
\* record, drain it, and take the next, twice over
MaxStreamReads == 5

\* Read calls made in all
ReadLimit == IF spc = "stream" THEN MaxStreamReads ELSE MaxReads

\* Read(b), up to the for loop: serve from c.buffer when it holds bytes
ReadCall(want) ==
  /\ rpc = "idle"
  /\ nReads < ReadLimit
  /\ nReads' = nReads + 1
  /\ rwant' = want
  /\ IF buffer.set /\ buffer.data # Empty
     THEN LET r == BufferRead(buffer.data, want)
          IN /\ buffer' = [set |-> TRUE, data |-> r.rest]
             /\ delivered' = BCat(delivered, r.out)
             /\ rlast' = RLast("buffered", r.err, r.out, FALSE, FALSE, FALSE)
             /\ rpc' = "idle"
     ELSE /\ buffer' = NilBuffer
          /\ rpc' = "loop"
          /\ UNCHANGED <<delivered, rlast>>
  /\ UNCHANGED <<hmacAdd, hmacVerify, hmacIgnore, wireVars, accepted, peerVars, wlast, writers, sessVars>>

\* the header read fails: the connection ended before 5 bytes arrived
ReadHeaderError(randOK, writeOK, r) ==
  /\ rpc = "loop"
  /\ BLen(clientIn) < tlsHeaderSize
  /\ clientClosed
  /\ clientIn' = Empty
  /\ toClient' = sendAlert(toClient, randOK, writeOK, r)
  /\ rlast' = RLast("headerErr", IF clientIn = Empty THEN "EOF" ELSE "ErrUnexpectedEOF",
                    Empty, TRUE, randOK, writeOK)
  /\ rpc' = "idle"
  /\ UNCHANGED <<connVars, clientClosed, rwant, nReads, delivered, accepted, peerVars, wlast, writers, sessVars>>

\* a variant of ReadBodyError: the failed body read sends an alert as well
ReadBodyErrorAlerting ==
  /\ rpc = "loop"
  /\ BLen(clientIn) >= tlsHeaderSize
  /\ BLen(clientIn) < tlsHeaderSize + Uint16(BSub(clientIn, 3, tlsHeaderSize))
  /\ clientClosed
  /\ buffer' = [set |-> TRUE, data |-> clientIn]
  /\ clientIn' = Empty
  /\ \E r \in RandBytes : toClient' = sendAlert(toClient, TRUE, TRUE, r)
  /\ rlast' = RLast("bodyErr", "ErrUnexpectedEOF", Empty, TRUE, TRUE, TRUE)
  /\ rpc' = "idle"
  /\ UNCHANGED <<hmacAdd, hmacVerify, hmacIgnore, clientClosed, rwant, nReads,
                 delivered, accepted, peerVars, wlast, writers, sessVars>>

\* the body read fails: c.buffer keeps the header and the bytes that arrived
ReadBodyError ==
  /\ rpc = "loop"
  /\ BLen(clientIn) >= tlsHeaderSize
  /\ BLen(clientIn) < tlsHeaderSize + Uint16(BSub(clientIn, 3, tlsHeaderSize))
  /\ clientClosed
  /\ buffer' = [set |-> TRUE, data |-> clientIn]
  /\ clientIn' = Empty
  /\ rlast' = RLast("bodyErr", "ErrUnexpectedEOF", Empty, FALSE, FALSE, FALSE)
  /\ rpc' = "idle"
  /\ UNCHANGED <<hmacAdd, hmacVerify, hmacIgnore, clientClosed, toClient, rwant, nReads,
                 delivered, accepted, peerVars, wlast, writers, sessVars>>

\* a Read that keeps hmacIgnore after a record that does not match it
ignoreAfterMismatchKept(h) == h

\* c.hmacIgnore after a record that did not match it (or with none set): nil
ignoreAfterMismatch(h) == NoHash

\* one turn of the for loop with a whole record read into c.buffer
ReadRecord(randOK, writeOK, r) ==
  /\ rpc = "loop"
  /\ BLen(clientIn) >= tlsHeaderSize
  /\ LET length == Uint16(BSub(clientIn, 3, tlsHeaderSize))
         frame == BTake(clientIn, tlsHeaderSize + length)
         ign == verifyApplicationData(frame, hmacIgnore, FALSE)
         ignored == hmacIgnore # NoHash /\ ign.ok
         ver == verifyApplicationData(frame, hmacVerify, TRUE)
         rd == BufferRead(BDrop(frame, tlsHmacHeaderSize), rwant)
     IN /\ BLen(clientIn) >= tlsHeaderSize + length
        /\ clientIn' = BDrop(clientIn, tlsHeaderSize + length)
        /\ CASE BAt(frame, 0) = alert ->
                  /\ buffer' = [set |-> TRUE, data |-> frame]
                  /\ rlast' = RLast("alert", "remote alert", Empty, FALSE, FALSE, FALSE)
                  /\ rpc' = "idle"
                  /\ UNCHANGED <<hmacVerify, hmacIgnore, toClient, delivered, accepted>>
             [] BAt(frame, 0) = applicationData /\ ignored ->
                  /\ buffer' = NilBuffer
                  /\ hmacIgnore' = ign.h
                  /\ rlast' = RLast("ignored", "nil", Empty, FALSE, FALSE, FALSE)
                  /\ rpc' = "loop"
                  /\ UNCHANGED <<hmacVerify, toClient, delivered, accepted>>
             [] BAt(frame, 0) = applicationData /\ ~ignored /\ ~ver.ok ->
                  /\ buffer' = [set |-> TRUE, data |-> frame]
                  /\ hmacIgnore' = ignoreAfterMismatch(hmacIgnore)
                  /\ hmacVerify' = ver.h
                  /\ toClient' = sendAlert(toClient, randOK, writeOK, r)
                  /\ rlast' = RLast("verifyFail", "application data verification failed",
                                    Empty, TRUE, randOK, writeOK)
                  /\ rpc' = "idle"
                  /\ UNCHANGED <<delivered, accepted>>
             [] BAt(frame, 0) = applicationData /\ ~ignored /\ ver.ok ->
                  /\ buffer' = [set |-> TRUE, data |-> rd.rest]
                  /\ hmacIgnore' = ignoreAfterMismatch(hmacIgnore)
                  /\ hmacVerify' = ver.h
                  /\ accepted' = BCat(accepted, BDrop(frame, tlsHmacHeaderSize))
                  /\ delivered' = BCat(delivered, rd.out)
                  /\ rlast' = RLast("data", rd.err, rd.out, FALSE, FALSE, FALSE)
                  /\ rpc' = "idle"
                  /\ UNCHANGED toClient
             [] OTHER ->
                  /\ buffer' = [set |-> TRUE, data |-> frame]
                  /\ toClient' = sendAlert(toClient, randOK, writeOK, r)
                  /\ rlast' = RLast("badType", "unexpected TLS record type", Empty, TRUE, randOK,
                                    writeOK)
                  /\ rpc' = "idle"
                  /\ UNCHANGED <<hmacVerify, hmacIgnore, delivered, accepted>>
  /\ UNCHANGED <<hmacAdd, clientClosed, rwant, nReads, peerVars, wlast, writers, sessVars>>


\* ------------------------------------------------------------------------
\* The peer of a verifiedConn (what arrives on c.Conn)
\* ------------------------------------------------------------------------

\* records that are not the next record of the peer's chain
StrayRecords ==
  { AlertRecord(Run(90, 2)),                                \* an alert
    BFrom(<<handshake, 3, 3, 0, 1, 0>>),                      \* a handshake record
    BFrom(<<applicationData, 3, 3, 0, 2, 9, 9>>),             \* shorter than a tag
    DataRecord(Sum4(HNew(Password + 1)), Run(5, 1)),         \* tagged under another key
    BCat(BFrom(<<applicationData, 3, 1, 0, 5>>),
         BCat(Sum4(HWrite(SeedVerify, Run(5, 1))), Run(5, 1))) } \* version 3.1

\* the peer sends the next record of its chain
PeerSendData(p) ==
  /\ ~clientClosed
  /\ LET tag == Sum4(HWrite(peerAdd, p))
     IN /\ clientIn' = BCat(clientIn, DataRecord(tag, p))
        /\ clientSent' = BCat(clientSent, DataRecord(tag, p))
        /\ peerAdd' = HWrite(HWrite(peerAdd, p), tag)
  /\ nPeer' = nPeer + 1
  /\ UNCHANGED <<connVars, clientClosed, toClient, readVars, peerIgn, peerVerify, wlast, writers,
                 sessVars>>

\* a record tagged by the rewrite chain of the handshake relay arrives
PeerSendEcho(p) ==
  /\ ~clientClosed
  /\ clientIn' = BCat(clientIn, DataRecord(Sum4(HWrite(peerIgn, p)), p))
  /\ clientSent' = BCat(clientSent, DataRecord(Sum4(HWrite(peerIgn, p)), p))
  /\ peerIgn' = HWrite(peerIgn, p)
  /\ nPeer' = nPeer + 1
  /\ UNCHANGED <<connVars, clientClosed, toClient, readVars, peerAdd, peerVerify, wlast, writers,
                 sessVars>>

\* any other record arrives
PeerSendStray(rec) ==
  /\ ~clientClosed
  /\ clientIn' = BCat(clientIn, rec)
  /\ clientSent' = BCat(clientSent, rec)
  /\ nPeer' = nPeer + 1
  /\ UNCHANGED <<connVars, clientClosed, toClient, readVars, peerAdd, peerIgn, peerVerify,
                 wlast, writers, sessVars>>

\* the connection ends, possibly in the middle of a record
PeerClose(cut) ==
  /\ ~clientClosed
  /\ clientClosed' = TRUE
  /\ clientIn' = BCat(clientIn, cut)
  /\ clientSent' = BCat(clientSent, cut)
  /\ UNCHANGED <<connVars, toClient, readVars, peerAdd, peerIgn, peerVerify, nPeer, wlast, writers,
                 sessVars>>

\* the beginnings of a record a connection can end with
CutRecords ==
  { Empty,
    BFrom(<<applicationData, 3>>),
    BFrom(<<applicationData, 3, 3, 0, 8, 1, 2>>) }

\* ------------------------------------------------------------------------
\* verifiedConn.Write / write / WriteBuffer / WriteVectorised
\* ------------------------------------------------------------------------

\* a variant of writeRecord: the tag is not fed back into the chain
writeRecordTagNotFed(h, p) ==
  LET h1 == HWrite(h, p)
      hmacHash == Sum4(h1)
  IN [frame |-> BCat(BCat(DataHeader(BLen(p)), hmacHash), p),
      h |-> h1]

\* c.write(p): the record it builds and the chain afterwards
writeRecord(h, p) ==
  LET h1 == HWrite(h, p)
      hmacHash == Sum4(h1)
  IN [frame |-> BCat(BCat(DataHeader(BLen(p)), hmacHash), p),
      h |-> HWrite(h1, hmacHash)]

\* WriteBuffer(buffer): the header is written into the buffer's headroom
writeBufferRecord(h, p) ==
  LET h1 == HWrite(h, p)
      hmacHash == Sum4(h1)
  IN [frame |-> BCat(BCat(DataHeader(BLen(p)), hmacHash), p),
      h |-> HWrite(h1, hmacHash)]

RECURSIVE HWriteAll(_, _)
\* for _, buffer := range buffers { hmacAdd.Write(buffer.Bytes()) }
HWriteAll(h, buffers) ==
  IF buffers = <<>> THEN h ELSE HWriteAll(HWrite(h, buffers[1]), Tail(buffers))

RECURSIVE ConcatAll(_)
ConcatAll(buffers) ==
  IF buffers = <<>> THEN Empty ELSE BCat(buffers[1], ConcatAll(Tail(buffers)))

\* WriteVectorised(buffers): the chain is fed Sum()[:4] first, and the tag
\* put in the header is the Sum()[:4] taken after that
writeVectorisedRecord(h, buffers) ==
  LET h1 == HWriteAll(h, buffers)
      h2 == HWrite(h1, Sum4(h1))
      hmacHash == Sum4(h2)
  IN [frame |-> BCat(BCat(DataHeader(BLen(ConcatAll(buffers))), hmacHash),
                     ConcatAll(buffers)),
      h |-> h2]

RECURSIVE Fragments(_)
\* the pWrite slices of the loop of Write
Fragments(p) ==
  IF BLen(p) = 0 THEN <<>>
  ELSE IF BLen(p) > MaxFragment
       THEN <<BTake(p, MaxFragment)>> \o Fragments(BDrop(p, MaxFragment))
       ELSE <<p>>

\* a record is handed to the connection; the ghost verifier sees it
Emit(st, frame, ok, op) ==
  LET v == verifyApplicationData(frame, st.pv, TRUE)
  IN [st EXCEPT !.log = Append(st.log, OutEntry(frame, ok, op, v.ok)),
                !.pv = v.h]

RECURSIVE WriteLoop(_, _, _)
\* for len(p) > 0 { ...; _, err = c.write(pWrite) }
WriteLoop(st, frags, oks) ==
  IF frags = <<>> THEN st
  ELSE LET w == writeRecord(st.h, frags[1])
           e == Emit(st, w.frame, oks[1], "Write")
       IN WriteLoop([e EXCEPT !.h = w.h, !.err = ~oks[1]], Tail(frags), Tail(oks))

WState == [h |-> hmacAdd, log |-> toClient, pv |-> peerVerify, err |-> FALSE]

WLast(op, p, n, err, first) ==
  [op |-> op, p |-> p, n |-> n, err |-> err, first |-> first]

\* Write(p): oks[i] says whether the i-th underlying write succeeds
Write(p, oks) ==
  /\ Len(toClient) + Len(Fragments(p)) <= MaxOut
  /\ LET st == WriteLoop(WState, Fragments(p), oks)
     IN /\ hmacAdd' = st.h
        /\ toClient' = st.log
        /\ peerVerify' = st.pv
        /\ wlast' = WLast("Write", p, IF st.err THEN 0 ELSE BLen(p), st.err,
                          Len(toClient) + 1)
  /\ UNCHANGED <<hmacVerify, hmacIgnore, buffer, clientIn, clientClosed, readVars,
                 peerAdd, peerIgn, nPeer, clientSent, writers, sessVars>>

WriteBuffer(p, ok) ==
  /\ Len(toClient) + 1 <= MaxOut
  /\ LET w == writeBufferRecord(hmacAdd, p)
         st == Emit(WState, w.frame, ok, "WriteBuffer")
     IN /\ hmacAdd' = w.h
        /\ toClient' = st.log
        /\ peerVerify' = st.pv
        /\ wlast' = WLast("WriteBuffer", p, 0, ~ok, Len(toClient) + 1)
  /\ UNCHANGED <<hmacVerify, hmacIgnore, buffer, clientIn, clientClosed, readVars,
                 peerAdd, peerIgn, nPeer, clientSent, writers, sessVars>>

WriteVectorised(buffers, ok) ==
  /\ Len(toClient) + 1 <= MaxOut
  /\ LET w == writeVectorisedRecord(hmacAdd, buffers)
         st == Emit(WState, w.frame, ok, "WriteVectorised")
     IN /\ hmacAdd' = w.h
        /\ toClient' = st.log
        /\ peerVerify' = st.pv
        /\ wlast' = WLast("WriteVectorised", ConcatAll(buffers), 0, ~ok, Len(toClient) + 1)
  /\ UNCHANGED <<hmacVerify, hmacIgnore, buffer, clientIn, clientClosed, readVars,
                 peerAdd, peerIgn, nPeer, clientSent, writers, sessVars>>

RECURSIVE LongPayload(_, _, _)
\* n bytes in runs of 1, 2, 4, ... bytes (those of n in binary), the bytes of
\* successive runs being b, b + 1, b, ... for an odd b
LongPayload(n, run, b) ==
  IF n = 0 THEN Empty
  ELSE IF n % (2 * run) # 0
       THEN BCat(Run(b, run),
                 LongPayload(n - run, 2 * run, IF b % 2 = 1 THEN b + 1 ELSE b - 1))
       ELSE LongPayload(n, 2 * run, b)

\* payloads given to Write
WritePayloads ==
  { Run(5, 1), Run(7, MaxFragment), Run(7, MaxFragment + 1), Run(7, 20000),
    BCat(Run(1, 16000), Run(2, 4000)), Run(7, 2 * MaxFragment),
    BCat(Run(1, 2 * MaxFragment), Run(2, 1)) }
\* buffers given to WriteBuffer
BufferPayloads ==
  { Run(5, 1), BFrom(<<6, 7>>), LongPayload(65531, 1, 7), LongPayload(65532, 1, 7) }
\* buffer lists given to WriteVectorised
VectorPayloads ==
  { <<Run(5, 1)>>, <<Run(5, 1), BFrom(<<6, 7>>)>>,
    <<LongPayload(32768, 1, 7), LongPayload(32767, 1, 5)>> }

\* ------------------------------------------------------------------------
\* A verifiedConn on its own: newVerifiedConn(conn, hmacAdd, hmacVerify, hmacIgnore)
\* ------------------------------------------------------------------------

InitConnAs(kind) ==
  /\ hmacAdd = SeedAdd
  /\ hmacVerify = SeedVerify
  /\ hmacIgnore \in {NoHash, SeedIgnore}
  /\ buffer = NilBuffer
  /\ clientIn = Empty
  /\ clientClosed = FALSE
  /\ toClient = <<>>
  /\ rpc = "idle"
  /\ rwant = 0
  /\ nReads = 0
  /\ delivered = Empty
  /\ accepted = Empty
  /\ rlast = RLast("none", "nil", Empty, FALSE, FALSE, FALSE)
  /\ peerAdd = SeedVerify
  /\ peerIgn = SeedIgnore
  /\ peerVerify = SeedAdd
  /\ nPeer = 0
  /\ clientSent = Empty
  /\ wlast = WLast("none", Empty, 0, FALSE, 1)
  /\ writers = NoWriters
  /\ spc = kind
  /\ result = ""
  /\ coverIn = Empty
  /\ coverEnd = "open"
  /\ toCover = Empty
  /\ closeCalls = <<>>
  /\ ctxDone = FALSE
  /\ serverRandom = Empty
  /\ hmacWrite = NoHash
  /\ c2s = "idle"
  /\ s2c = "idle"
  /\ handshakeFinished = FALSE
  /\ clientFirstFrame = NilBuffer
  /\ cache = Empty
  /\ coverSent = Empty
  /\ nCover = 0
  /\ events = <<>>
  /\ rewrites = <<>>
  /\ s2cEnd = S2CEnd("", FALSE, FALSE)

InitConn == InitConnAs("conn")

PeerNext ==
  \/ nPeer < MaxPeer /\ \E p \in PeerPayloads : PeerSendData(p)
  \/ nPeer < MaxPeer /\ \E p \in PeerPayloads : PeerSendEcho(p)
  \/ nPeer < MaxPeer /\ \E rec \in StrayRecords : PeerSendStray(rec)
  \/ \E cut \in CutRecords : PeerClose(cut)

ReadNext ==
  \/ \E want \in ReadSizes : ReadCall(want)
  \/ \E randOK, writeOK \in BOOLEAN, r \in RandBytes : ReadHeaderError(randOK, writeOK, r)
  \/ ReadBodyError
  \/ \E randOK, writeOK \in BOOLEAN, r \in RandBytes : ReadRecord(randOK, writeOK, r)

WriteNext ==
  \/ \E p \in WritePayloads :
       \E oks \in [1..Len(Fragments(p)) -> BOOLEAN] : Write(p, oks)
  \/ \E p \in BufferPayloads, ok \in BOOLEAN : WriteBuffer(p, ok)
  \/ \E b \in VectorPayloads, ok \in BOOLEAN : WriteVectorised(b, ok)

\* the read side of a verifiedConn and its peer
SpecRead == InitConn /\ [][PeerNext \/ ReadNext]_vars

\* the write side of a verifiedConn
SpecWrite == InitConn /\ [][WriteNext]_vars

\* ------------------------------------------------------------------------
\* Goroutines writing to one verifiedConn concurrently
\* ------------------------------------------------------------------------

\* records chained by concurrent writers
MaxChained == 3

\* the record an operation builds under c.access and the chain it leaves
chainRecord(op, h, p) ==
  CASE op = "Write" -> writeRecord(h, p)
    [] op = "WriteBuffer" -> writeBufferRecord(h, p)
    [] OTHER -> writeVectorisedRecord(h, <<p>>)

\* goroutine w runs the section between c.access.Lock() and c.access.Unlock()
\* of write, WriteBuffer or WriteVectorised: hmacAdd is fed and the tag taken
WriterChain(w, op, p) ==
  /\ writers.pend[w].n = 0
  /\ writers.count < MaxChained
  /\ LET rec == chainRecord(op, hmacAdd, p)
     IN /\ hmacAdd' = rec.h
        /\ writers' = [writers EXCEPT
                         !.pend[w] = [n |-> writers.count + 1, frame |-> rec.frame,
                                      op |-> op],
                         !.count = writers.count + 1]
  /\ UNCHANGED <<hmacVerify, hmacIgnore, buffer, wireVars, readVars, peerVars, wlast,
                 sessVars>>

\* goroutine w, after Unlock: the record is handed to the connection
WriterEmit(w, ok) ==
  /\ writers.pend[w].n # 0
  /\ LET st == Emit(WState, writers.pend[w].frame, ok, writers.pend[w].op)
     IN /\ toClient' = st.log
        /\ peerVerify' = st.pv
  /\ writers' = [writers EXCEPT
                   !.pend[w] = [n |-> 0, frame |-> Empty, op |-> ""],
                   !.emitted = Append(writers.emitted, writers.pend[w].n)]
  /\ UNCHANGED <<connVars, clientIn, clientClosed, readVars, peerAdd, peerIgn, nPeer,
                 clientSent, wlast, sessVars>>

WritersNext ==
  \/ \E w \in Writers, op \in DataOps, p \in BufferPayloads : WriterChain(w, op, p)
  \/ \E w \in Writers, ok \in BOOLEAN : WriterEmit(w, ok)

\* a verifiedConn written by two goroutines
SpecWriters == InitConn /\ [][WritersNext]_vars


\* ------------------------------------------------------------------------
\* Record codec and the hello inspectors (v3_server.go)
\* ------------------------------------------------------------------------

\* an extractFrame that returns the record without its last byte
extractFrameShort(stream, ended) ==
  LET need == IF BLen(stream) < tlsHeaderSize THEN tlsHeaderSize
              ELSE tlsHeaderSize + Uint16(BSub(stream, 3, tlsHeaderSize))
  IN IF BLen(stream) < tlsHeaderSize \/ BLen(stream) < need
     THEN [st |-> IF ended THEN "err" ELSE "wait", frame |-> Empty, rest |-> Empty]
     ELSE [st |-> "ok", frame |-> BTake(stream, need - 1), rest |-> BDrop(stream, need)]

\* extractFrame(conn) on the unread bytes of a stream that can still grow
\* (ended = FALSE) or has ended: "wait" while the record is incomplete,
\* "err" when the stream ended first, else the record and the bytes after it
extractFrame(stream, ended) ==
  LET need == IF BLen(stream) < tlsHeaderSize THEN tlsHeaderSize
              ELSE tlsHeaderSize + Uint16(BSub(stream, 3, tlsHeaderSize))
  IN IF BLen(stream) < tlsHeaderSize \/ BLen(stream) < need
     THEN [st |-> IF ended THEN "err" ELSE "wait", frame |-> Empty, rest |-> Empty]
     ELSE [st |-> "ok", frame |-> BTake(stream, need), rest |-> BDrop(stream, need)]

\* the bytes the HMAC of a ClientHello covers: frame[5:hmacIndex], four zero
\* bytes, frame[hmacIndex+4:]
helloHmacIndex == sessionIDLengthIndex + 1 + tlsSessionIDSize - hmacSize

HelloDigest(frame, password) ==
  Sum4(HWrite(HWrite(HWrite(HNew(password),
                            BSub(frame, tlsHeaderSize, helloHmacIndex)),
                     Run(0, 4)),
              BDrop(frame, helloHmacIndex + hmacSize)))

\* a verifyClientHello that accepts every tag
AnyUserMatchesAlways(frame, users) == TRUE

RECURSIVE AnyUserMatches(_, _)
\* for _, user := range users { ... hmac.Equal(...) }
AnyUserMatches(frame, users) ==
  IF users = <<>> THEN FALSE
  ELSE \/ BSub(frame, helloHmacIndex, helloHmacIndex + hmacSize) = HelloDigest(frame, users[1])
       \/ AnyUserMatches(frame, Tail(users))

\* verifyClientHello(frame, users): "nil" or the error
verifyClientHello(frame, users) ==
  IF BLen(frame) < tlsHeaderSize + 1 + 3 + 2 + tlsRandomSize + 1 + tlsSessionIDSize
    THEN "ErrUnexpectedEOF"
  ELSE IF BAt(frame, 0) # handshake THEN "unexpected record type"
  ELSE IF BAt(frame, 5) # clientHello THEN "unexpected handshake type"
  ELSE IF BAt(frame, sessionIDLengthIndex) # tlsSessionIDSize
    THEN "unexpected session id length"
  ELSE IF AnyUserMatches(frame, users) THEN "nil"
  ELSE "hmac mismatch"

\* extractServerRandom(frame): [ok, random]
extractServerRandom(frame) ==
  IF \/ BLen(frame) < tlsHeaderSize + 1 + 3 + 2 + tlsRandomSize
     \/ BAt(frame, 0) # handshake
     \/ BAt(frame, 5) # serverHello
  THEN [ok |-> FALSE, random |-> Empty]
  ELSE [ok |-> TRUE,
        random |-> BSub(frame, serverRandomIndex, serverRandomIndex + tlsRandomSize)]

RECURSIVE ExtensionLoop(_, _, _, _)
\* the extension loop of isServerHelloSupportTLS13: the reader is at pos,
\* i of n turns are done
ExtensionLoop(frame, pos, i, n) ==
  IF i >= n THEN FALSE
  ELSE IF pos + 4 > BLen(frame) THEN FALSE
  ELSE LET extensionType == Uint16(BSub(frame, pos, pos + 2))
           extensionLength == Uint16(BSub(frame, pos + 2, pos + 4))
       IN IF extensionType # 43
          THEN IF pos + 4 + extensionLength > BLen(frame) THEN FALSE
               ELSE ExtensionLoop(frame, pos + 4 + extensionLength, i + 1, n)
          ELSE IF extensionLength # 2 THEN FALSE
          ELSE IF pos + 6 > BLen(frame) THEN FALSE
          ELSE Uint16(BSub(frame, pos + 4, pos + 6)) = 772

\* isServerHelloSupportTLS13(frame)
isServerHelloSupportTLS13(frame) ==
  IF BLen(frame) < sessionIDLengthIndex THEN FALSE
  ELSE IF BLen(frame) < sessionIDLengthIndex + 1 THEN FALSE
  ELSE LET sessionIdLength == BAt(frame, sessionIDLengthIndex)
           pos == sessionIDLengthIndex + 1 + sessionIdLength + 3
       IN IF pos + 2 > BLen(frame) THEN FALSE
          ELSE ExtensionLoop(frame, pos + 2, 0, Uint16(BSub(frame, pos, pos + 2)))

\* ------------------------------------------------------------------------
\* The XOR mask of the cover-to-client rewrite
\* ------------------------------------------------------------------------

RECURSIVE XorByte(_, _)
XorByte(a, b) ==
  IF a = 0 /\ b = 0 THEN 0
  ELSE ((a + b) % 2) + 2 * XorByte(a \div 2, b \div 2)

\* kdf(password, serverRandom): the key of the mask
kdf(password, random) ==
  Sum4(HWrite(HWrite(HNew(password), Run(75, 1)), random))

RECURSIVE XorFrom(_, _, _)
\* data[i:] masked, byte j with key[j % len(key)]
XorFrom(data, key, i) ==
  IF i >= BLen(data) THEN Empty
  ELSE BCat(Run(XorByte(BAt(data, i), BAt(key, i % BLen(key))), 1),
            XorFrom(data, key, i + 1))

\* xorSlice(data, key)
xorSlice(data, key) == XorFrom(data, key, 0)

\* ------------------------------------------------------------------------
\* Service.NewConnection, case 3 (src/unnamed/part_000)
\* ------------------------------------------------------------------------

\* the users the ClientHello is verified against (s.password)
Users == <<Password>>

\* hmacVerifyReset(): Reset(), Write(serverRandom), Write("C")
hmacVerifyReset(random) == HWrite(HWrite(HNew(Password), random), Run(67, 1))

\* a seeding of hmacAdd without the "S"
hmacAddSeedBare(random) == HWrite(HNew(Password), random)

\* hmacAdd: hmac.New(password), Write(serverRandom), Write("S")
hmacAddSeed(random) == HWrite(HWrite(HNew(Password), random), Run(83, 1))

\* the group of the relay phase never has FastFail() called on it
fastFail == FALSE

\* a group without the Cleanup function
cleanupSkipped(calls) == calls

\* the Cleanup function of the group: handshakeConn.Close()
cleanup(calls) == Append(calls, "cleanup")

\* an Advance that strips the 5-byte record header only
advanceHeaderOnly(frame) == BDrop(frame, tlsHeaderSize)

\* frameBuffer.Advance(tlsHmacHeaderSize): what is left of the matching record
advanceHmacHeader(frame) == BDrop(frame, tlsHmacHeaderSize)

\* a probe that tests the record on a fresh chain but, on a match, feeds the
\* record into hmacVerify as the earlier probes left it
probeFrameNoReset(frame, random) ==
  IF BLen(frame) > tlsHmacHeaderSize /\ BAt(frame, 0) = applicationData
  THEN LET h1 == HWrite(hmacVerifyReset(random), BDrop(frame, tlsHmacHeaderSize))
           hmacHash == Sum4(h1)
       IN IF hmacHash = BSub(frame, tlsHeaderSize, tlsHmacHeaderSize)
          THEN [match |-> TRUE,
                h |-> HWrite(HWrite(hmacVerify, BDrop(frame, tlsHmacHeaderSize)),
                             BSub(frame, tlsHeaderSize, tlsHmacHeaderSize))]
          ELSE [match |-> FALSE, h |-> h1]
  ELSE [match |-> FALSE, h |-> hmacVerify]

\* the probe of copyByFrameUntilHMACMatches on one record: whether it is the
\* first tunneled record, and hmacVerify afterwards
probeFrame(frame, random) ==
  IF BLen(frame) > tlsHmacHeaderSize /\ BAt(frame, 0) = applicationData
  THEN LET h1 == HWrite(hmacVerifyReset(random), BDrop(frame, tlsHmacHeaderSize))
           hmacHash == Sum4(h1)
       IN IF hmacHash = BSub(frame, tlsHeaderSize, tlsHmacHeaderSize)
          THEN [match |-> TRUE,
                h |-> HWrite(HWrite(hmacVerifyReset(random),
                                    BDrop(frame, tlsHmacHeaderSize)),
                             BSub(frame, tlsHeaderSize, tlsHmacHeaderSize))]
          ELSE [match |-> FALSE, h |-> h1]
  ELSE [match |-> FALSE, h |-> hmacVerify]

\* a rewrite that feeds the tag into the chain as well
rewriteFrameTagFed(h, frame, writeKey) ==
  LET masked == xorSlice(BDrop(frame, tlsHeaderSize), writeKey)
      h1 == HWrite(h, masked)
      hmacHash == Sum4(h1)
  IN [p |-> masked, tag |-> hmacHash, h |-> HWrite(h1, hmacHash),
      out |-> BCat(BCat(BCat(BTake(frame, 3),
                             PutUint16(BLen(frame) - tlsHeaderSize + hmacSize)),
                        hmacHash),
                   masked)]

\* PutUint16(frame[3:], uint16(len(frame)-tlsHeaderSize+hmacSize)), line 184
rewriteLength(frame) == PutUint16(BLen(frame) - tlsHeaderSize + hmacSize)

\* the rewrite of copyByFrameWithModification on one application_data record:
\* the masked payload, the tag, the record written and the chain afterwards
rewriteFrame(h, frame, writeKey) ==
  LET masked == xorSlice(BDrop(frame, tlsHeaderSize), writeKey)
      h1 == HWrite(h, masked)
      hmacHash == Sum4(h1)
  IN [p |-> masked, tag |-> hmacHash, h |-> h1,
      out |-> BCat(BCat(BCat(BTake(frame, 3), rewriteLength(frame)), hmacHash), masked)]

\* lines 129-144: read the ClientHello, forward it, verify it
ReadClientHello(wok) ==
  /\ spc = "readClientHello"
  /\ LET f == extractFrame(clientIn, clientClosed)
     IN /\ f.st # "wait"
        /\ IF f.st = "err"
           THEN /\ clientIn' = Empty
                /\ result' = "read client handshake"
                /\ spc' = "returned"
                /\ UNCHANGED <<toCover, events>>
           ELSE /\ clientIn' = f.rest
                /\ IF ~wok
                   THEN /\ result' = "write client handshake"
                        /\ spc' = "returned"
                        /\ UNCHANGED <<toCover, events>>
                   ELSE /\ toCover' = BCat(toCover, f.frame)
                        /\ UNCHANGED result
                        /\ IF verifyClientHello(f.frame, Users) = "nil"
                           THEN /\ spc' = "readServerHello"
                                /\ events' = Append(events, "helloVerified")
                           ELSE /\ spc' = "fallback"
                                /\ events' = Append(events, "fallback")
  /\ UNCHANGED <<connVars, clientClosed, toClient, readVars, peerVars, wlast, writers,
                 coverIn, coverEnd, closeCalls, ctxDone, serverRandom, hmacWrite, c2s, s2c,
                 handshakeFinished, clientFirstFrame, cache, coverSent, nCover, rewrites, s2cEnd>>

\* lines 146-184: read the ServerHello, forward it, inspect it, seed the chains
ReadServerHello(wok) ==
  /\ spc = "readServerHello"
  /\ LET f == extractFrame(coverIn, coverEnd # "open")
         sr == extractServerRandom(f.frame)
     IN /\ f.st # "wait"
        /\ IF f.st = "err"
           THEN /\ coverIn' = Empty
                /\ result' = "read server handshake"
                /\ spc' = "returned"
                /\ UNCHANGED <<toClient, events, serverRandom, hmacWrite, hmacAdd,
                               hmacVerify, c2s, s2c>>
           ELSE /\ coverIn' = f.rest
                /\ toClient' = Append(toClient, OutEntry(f.frame, wok, "forward", FALSE))
                /\ IF ~wok
                   THEN /\ result' = "write server handshake"
                        /\ spc' = "returned"
                        /\ UNCHANGED <<events, serverRandom, hmacWrite, hmacAdd,
                                       hmacVerify, c2s, s2c>>
                   ELSE IF ~sr.ok \/ ~isServerHelloSupportTLS13(f.frame)
                   THEN /\ spc' = "fallback"
                        /\ events' = Append(events, "fallback")
                        /\ UNCHANGED <<result, serverRandom, hmacWrite, hmacAdd,
                                       hmacVerify, c2s, s2c>>
                   ELSE /\ spc' = "relay"
                        /\ events' = events \o <<"serverRandom", "tls13">>
                        /\ serverRandom' = sr.random
                        /\ hmacWrite' = HWrite(HNew(Password), sr.random)
                        /\ hmacAdd' = hmacAddSeed(sr.random)
                        /\ hmacVerify' = HNew(Password)
                        /\ c2s' = "run"
                        /\ s2c' = "run"
                        /\ UNCHANGED result
  /\ UNCHANGED <<hmacIgnore, buffer, clientIn, clientClosed, readVars, peerVars, wlast, writers,
                 coverEnd, toCover, closeCalls, ctxDone, handshakeFinished,
                 clientFirstFrame, cache, coverSent, nCover, rewrites, s2cEnd>>

\* bufio.CopyConn, client to cover: n bytes that have arrived are copied
FallbackClientToCover(n, wok) ==
  /\ spc = "fallback"
  /\ clientIn # Empty
  /\ clientIn' = BDrop(clientIn, n)
  /\ IF wok
     THEN /\ toCover' = BCat(toCover, BTake(clientIn, n))
          /\ UNCHANGED <<spc, result>>
     ELSE /\ spc' = "returned"
          /\ result' = "copy"
          /\ UNCHANGED toCover
  /\ UNCHANGED <<connVars, clientClosed, toClient, readVars, peerVars, wlast, writers,
                 coverIn, coverEnd, closeCalls, ctxDone, serverRandom, hmacWrite, c2s, s2c,
                 handshakeFinished, clientFirstFrame, cache, coverSent, nCover, events,
                 rewrites, s2cEnd>>

\* bufio.CopyConn, cover to client
FallbackCoverToClient(n, wok) ==
  /\ spc = "fallback"
  /\ coverIn # Empty
  /\ coverIn' = BDrop(coverIn, n)
  /\ toClient' = Append(toClient, OutEntry(BTake(coverIn, n), wok, "copy", FALSE))
  /\ IF wok
     THEN UNCHANGED <<spc, result>>
     ELSE /\ spc' = "returned"
          /\ result' = "copy"
  /\ UNCHANGED <<connVars, clientIn, clientClosed, readVars, peerVars, wlast, writers,
                 coverEnd, toCover, closeCalls, ctxDone, serverRandom, hmacWrite, c2s, s2c,
                 handshakeFinished, clientFirstFrame, cache, coverSent, nCover, events,
                 rewrites, s2cEnd>>

\* bufio.CopyConn returns: both directions have ended, or the context is done
FallbackReturn ==
  /\ spc = "fallback"
  /\ \/ ctxDone
     \/ /\ clientClosed /\ clientIn = Empty
        /\ coverEnd # "open" /\ coverIn = Empty
  /\ spc' = "returned"
  /\ result' = IF ctxDone THEN "copy" ELSE "nil"
  /\ UNCHANGED <<connVars, wireVars, readVars, peerVars, wlast, writers,
                 coverIn, coverEnd, toCover, closeCalls, ctxDone, serverRandom, hmacWrite,
                 c2s, s2c, handshakeFinished, clientFirstFrame, cache, coverSent, nCover,
                 events, rewrites, s2cEnd>>

\* "client handshake relay": one turn of the loop of copyByFrameUntilHMACMatches;
\* on a match also lines 192-193 (clientFirstFrame, handshakeFinished)
ClientRelayStep(wok) ==
  /\ c2s = "run"
  /\ LET f == extractFrame(clientIn, clientClosed)
         pr == probeFrame(f.frame, serverRandom)
     IN /\ f.st # "wait"
        /\ IF f.st = "err"
           THEN /\ clientIn' = Empty
                /\ c2s' = "err"
                /\ UNCHANGED <<hmacVerify, toCover, clientFirstFrame, handshakeFinished,
                               events>>
           ELSE /\ clientIn' = f.rest
                /\ hmacVerify' = pr.h
                /\ IF pr.match
                   THEN /\ clientFirstFrame' = [set |-> TRUE, data |-> advanceHmacHeader(f.frame)]
                        /\ handshakeFinished' = TRUE
                        /\ c2s' = "matched"
                        /\ events' = Append(events, "matched")
                        /\ UNCHANGED toCover
                   ELSE /\ IF wok /\ closeCalls = <<>>
                           THEN /\ toCover' = BCat(toCover, f.frame)
                                /\ UNCHANGED c2s
                           ELSE /\ c2s' = "err"
                                /\ UNCHANGED toCover
                        /\ UNCHANGED <<clientFirstFrame, handshakeFinished, events>>
  /\ UNCHANGED <<hmacAdd, hmacIgnore, buffer, clientClosed, toClient, readVars, peerVars,
                 wlast, writers, spc, result, coverIn, coverEnd, closeCalls, ctxDone, serverRandom,
                 hmacWrite, s2c, cache, coverSent, nCover, rewrites, s2cEnd>>

\* "client handshake relay", line 194: handshakeConn.Close(), and the task returns nil
ClientRelayClose ==
  /\ c2s = "matched"
  /\ closeCalls' = Append(closeCalls, "handoff")
  /\ c2s' = "ok"
  /\ UNCHANGED <<connVars, wireVars, readVars, peerVars, wlast, writers,
                 spc, result, coverIn, coverEnd, toCover, ctxDone, serverRandom, hmacWrite,
                 s2c, handshakeFinished, clientFirstFrame, cache, coverSent, nCover, events,
                 rewrites, s2cEnd>>

\* a laundering that does not look at handshakeFinished
launderAnyClosed(closedOrCancelled, finished) ==
  IF closedOrCancelled THEN "ok" ELSE "err"

\* the result of "server handshake relay" for an error of copyByFrameWithModification
\* (lines 200-203): nil iff it is a closed-or-cancelled error and the task
\* reads handshakeFinished as true
launder(closedOrCancelled, finished) ==
  IF closedOrCancelled /\ finished THEN "ok" ELSE "err"

\* the value of handshakeFinished the cover-to-client task reads. The variable
\* is written by the other task without synchronisation: the read is ordered
\* after the write only when the task's error comes from the handoff's
\* Close(); otherwise it can also be the value from before the write.
readHandshakeFinished(stale) ==
  IF \E i \in 1..Len(closeCalls) : closeCalls[i] = "handoff"
  THEN handshakeFinished
  ELSE handshakeFinished /\ ~stale

\* "server handshake relay": one turn of the loop of copyByFrameWithModification
\* wkind: the kind of error of a failed write to the client
ServerRelayStep(wok, wkind, stale) ==
  /\ s2c = "run"
  /\ IF closeCalls # <<>>
     THEN \* the read on the closed handshakeConn fails with net.ErrClosed
          /\ s2c' = launder(TRUE, readHandshakeFinished(stale))
          /\ s2cEnd' = S2CEnd(closeCalls[1], TRUE, readHandshakeFinished(stale))
          /\ UNCHANGED <<coverIn, toClient, hmacWrite, rewrites>>
     ELSE LET f == extractFrame(coverIn, coverEnd # "open")
              rw == rewriteFrame(hmacWrite, f.frame, kdf(Password, serverRandom))
              isData == BAt(f.frame, 0) = applicationData
          IN /\ f.st # "wait"
             /\ IF f.st = "err"
                THEN /\ coverIn' = Empty
                     /\ s2c' = launder(coverEnd = "reset", readHandshakeFinished(stale))
                     /\ s2cEnd' = S2CEnd(coverEnd, coverEnd = "reset",
                                         readHandshakeFinished(stale))
                     /\ UNCHANGED <<toClient, hmacWrite, rewrites>>
                ELSE /\ coverIn' = f.rest
                     /\ IF isData
                        THEN /\ hmacWrite' = rw.h
                             /\ rewrites' = Append(rewrites, [p |-> rw.p, tag |-> rw.tag])
                             /\ toClient' = Append(toClient,
                                                   OutEntry(rw.out, wok, "rewrite", FALSE))
                        ELSE /\ toClient' = Append(toClient,
                                                   OutEntry(f.frame, wok, "forward", FALSE))
                             /\ UNCHANGED <<hmacWrite, rewrites>>
                     /\ s2c' = IF wok THEN "run"
                               ELSE launder(wkind = "closed", readHandshakeFinished(stale))
                     /\ s2cEnd' = IF wok THEN s2cEnd
                                  ELSE S2CEnd("write", wkind = "closed",
                                              readHandshakeFinished(stale))
  /\ UNCHANGED <<connVars, clientIn, clientClosed, readVars, peerVars, wlast, writers,
                 spc, result, coverEnd, toCover, closeCalls, ctxDone, serverRandom, c2s,
                 handshakeFinished, clientFirstFrame, cache, coverSent, nCover, events>>

\* a group for which only a task that returned an error counts
groupErrorOfReturned == c2s = "err" \/ s2c = "err"

\* group.Run(ctx) has an error to return whatever ctx does: some task has not
\* returned nil
groupError == ~(c2s = "ok" /\ s2c = "ok")

\* group.Run(ctx) returns (lines 205-213): without FastFail it waits for both
\* tasks, or for the context; the cleanup closes handshakeConn; on success the
\* handler gets NewCachedConn(newVerifiedConn(conn, hmacAdd, hmacVerify, nil),
\* clientFirstFrame)
GroupReturn(failed) ==
  /\ spc = "relay"
  /\ \/ c2s \in {"ok", "err"} /\ s2c \in {"ok", "err"}
     \/ ctxDone
     \/ fastFail /\ (c2s = "err" \/ s2c = "err")
  /\ IF groupError THEN failed ELSE failed => ctxDone
  /\ closeCalls' = cleanup(closeCalls)
  /\ IF failed
     THEN /\ result' = "handshake relay"
          /\ spc' = "returned"
          /\ UNCHANGED <<hmacIgnore, buffer, cache, events>>
     ELSE /\ spc' = "handler"
          /\ events' = Append(events, "handler")
          /\ hmacIgnore' = NoHash
          /\ buffer' = NilBuffer
          /\ cache' = clientFirstFrame.data
          /\ UNCHANGED result
  /\ UNCHANGED <<hmacAdd, hmacVerify, wireVars, readVars, peerVars, wlast, writers,
                 coverIn, coverEnd, toCover, ctxDone, serverRandom, hmacWrite, c2s, s2c,
                 handshakeFinished, clientFirstFrame, coverSent, nCover, rewrites, s2cEnd>>

\* the handler reads: CachedConn.Read serves the cached first frame first
HandlerReadCached(want) ==
  /\ spc = "handler"
  /\ cache # Empty
  /\ rpc = "idle"
  /\ nReads < MaxReads
  /\ nReads' = nReads + 1
  /\ cache' = BDrop(cache, want)
  /\ delivered' = BCat(delivered, BTake(cache, want))
  /\ UNCHANGED <<connVars, wireVars, rpc, rwant, accepted, rlast, peerVars, wlast, writers,
                 spc, result, coverIn, coverEnd, toCover, closeCalls, ctxDone, serverRandom,
                 hmacWrite, c2s, s2c, handshakeFinished, clientFirstFrame, coverSent, nCover,
                 events, rewrites, s2cEnd>>

\* Write calls of the handler
MaxHandlerWrites == 1

\* the Write calls the handler has made
HandlerWrites == Cardinality({i \in 1..Len(toClient) : toClient[i].op = "Write"})

\* the handler writes: verifiedConn.Write on the connection it was given.
\* The read side and the write side of a verifiedConn share no field, so a
\* handler is followed either writing (before its first Read) or reading.
HandlerWrite(p, ok) ==
  /\ spc = "handler"
  /\ nReads = 0
  /\ HandlerWrites < MaxHandlerWrites
  /\ Write(p, [i \in 1..Len(Fragments(p)) |-> ok])

\* ------------------------------------------------------------------------
\* The client and the cover of a session
\* ------------------------------------------------------------------------

MaxClient == 3
MaxCover == 3
\* the size of the buffer bufio.CopyConn copies with
CopyBuf == 64

Min(a, b) == IF a < b THEN a ELSE b

\* a ClientHello of 80 bytes with the given 4 bytes at [72, 76)
HelloWith(tag) ==
  BCat(BFrom(<<handshake, 3, 1, 0, 75, clientHello, 0, 0, 71, 3, 3>>),
       BCat(Run(9, tlsRandomSize),
            BCat(Run(tlsSessionIDSize, 1),
                 BCat(Run(8, tlsSessionIDSize - hmacSize),
                      BCat(tag, BFrom(<<19, 1, 1, 0>>))))))

\* the ClientHello of a client that knows the password
GoodHello == HelloWith(HelloDigest(HelloWith(Run(0, 4)), Password))
\* the ClientHello of a client that does not
ProbeHello == HelloWith(HelloDigest(HelloWith(Run(0, 4)), Password + 1))

\* the client and the cover send a record when the one before has been read
\* what a client sends besides tunneled records: first, and later
ClientRecords(n) ==
  IF n = 0
  THEN {GoodHello, ProbeHello, BFrom(<<applicationData, 3, 3, 0, 6, 1, 2, 3, 4, 5, 6>>)}
  ELSE {BFrom(<<applicationData, 3, 3, 0, 6, 1, 2, 3, 4, 5, 6>>)}

\* a ServerHello with the given extensions
ServerHelloWith(exts) ==
  BCat(BFrom(<<handshake, 3, 3, 0, 45 + BLen(exts), serverHello, 0, 0, 41 + BLen(exts), 3, 3>>),
       BCat(ServerRandom,
            BCat(BFrom(<<1, 77, 19, 1, 0>>), BCat(PutUint16(BLen(exts)), exts))))

\* what a cover sends: first, and later
CoverRecords(n) ==
  IF n = 0
  THEN { ServerHelloWith(BFrom(<<0, 51, 0, 1, 9, 0, 43, 0, 2, 3, 4>>)),
         ServerHelloWith(BFrom(<<0, 51, 0, 1, 9>>)),
         BFrom(<<applicationData, 3, 3, 0, 2, 1, 2>>) }
  ELSE { BFrom(<<applicationData, 3, 3, 0, 2, 1, 2>>),
         BFrom(<<handshake, 3, 3, 0, 1, 20>>) }

CoverSend(rec) ==
  /\ spc \notin {"returned", "handler", "conn"}
  /\ nCover < MaxCover
  /\ coverIn = Empty
  /\ coverEnd = "open"
  /\ closeCalls = <<>>
  /\ coverIn' = BCat(coverIn, rec)
  /\ coverSent' = BCat(coverSent, rec)
  /\ nCover' = nCover + 1
  /\ UNCHANGED <<connVars, wireVars, readVars, peerVars, wlast, writers,
                 spc, result, coverEnd, toCover, closeCalls, ctxDone, serverRandom,
                 hmacWrite, c2s, s2c, handshakeFinished, clientFirstFrame, cache, events,
                 rewrites, s2cEnd>>

\* the cover ends its side: a FIN ("eof") or a reset
CoverEnds(kind) ==
  /\ spc \notin {"returned", "handler", "conn"}
  /\ coverEnd = "open"
  /\ closeCalls = <<>>
  /\ coverEnd' = kind
  /\ UNCHANGED <<connVars, wireVars, readVars, peerVars, wlast, writers,
                 spc, result, coverIn, toCover, closeCalls, ctxDone, serverRandom,
                 hmacWrite, c2s, s2c, handshakeFinished, clientFirstFrame, cache, coverSent,
                 nCover, events, rewrites, s2cEnd>>

\* the caller cancels ctx
CtxCancel ==
  /\ spc \in {"relay", "fallback"}
  /\ ~ctxDone
  /\ ctxDone' = TRUE
  /\ UNCHANGED <<connVars, wireVars, readVars, peerVars, wlast, writers,
                 spc, result, coverIn, coverEnd, toCover, closeCalls, serverRandom,
                 hmacWrite, c2s, s2c, handshakeFinished, clientFirstFrame, cache, coverSent,
                 nCover, events, rewrites, s2cEnd>>

\* NewConnection has dialled the cover and is about to read the ClientHello
InitSession ==
  /\ hmacAdd = NoHash
  /\ hmacVerify = NoHash
  /\ hmacIgnore = NoHash
  /\ buffer = NilBuffer
  /\ clientIn = Empty
  /\ clientClosed = FALSE
  /\ toClient = <<>>
  /\ rpc = "idle"
  /\ rwant = 0
  /\ nReads = 0
  /\ delivered = Empty
  /\ accepted = Empty
  /\ rlast = RLast("none", "nil", Empty, FALSE, FALSE, FALSE)
  /\ peerAdd = SeedVerify
  /\ peerIgn = SeedIgnore
  /\ peerVerify = SeedAdd
  /\ nPeer = 0
  /\ clientSent = Empty
  /\ wlast = WLast("none", Empty, 0, FALSE, 1)
  /\ writers = NoWriters
  /\ spc = "readClientHello"
  /\ result = ""
  /\ coverIn = Empty
  /\ coverEnd = "open"
  /\ toCover = Empty
  /\ closeCalls = <<>>
  /\ ctxDone = FALSE
  /\ serverRandom = Empty
  /\ hmacWrite = NoHash
  /\ c2s = "idle"
  /\ s2c = "idle"
  /\ handshakeFinished = FALSE
  /\ clientFirstFrame = NilBuffer
  /\ cache = Empty
  /\ coverSent = Empty
  /\ nCover = 0
  /\ events = <<>>
  /\ rewrites = <<>>
  /\ s2cEnd = S2CEnd("", FALSE, FALSE)

\* payloads the handler writes
HandlerPayloads == {Run(5, 1)}

\* payloads of the tunneled records a client sends
TunnelPayloads == {BFrom(<<6, 7, 8>>)}

SessionEnvNext ==
  \/ /\ spc # "returned"
     /\ nPeer < MaxClient
     /\ clientIn = Empty
     /\ \/ \E rec \in ClientRecords(nPeer) : PeerSendStray(rec)
        \/ nPeer > 0 /\ \E p \in TunnelPayloads : PeerSendData(p)
  \/ spc # "returned" /\ PeerClose(Empty)
  \/ \E rec \in CoverRecords(nCover) : CoverSend(rec)
  \/ \E kind \in {"eof", "reset"} : CoverEnds(kind)
  \/ CtxCancel

SessionNext ==
  \/ \E wok \in BOOLEAN : ReadClientHello(wok)
  \/ \E wok \in BOOLEAN : ReadServerHello(wok)
  \/ \E n \in {Min(CopyBuf, BLen(clientIn))}, wok \in BOOLEAN : FallbackClientToCover(n, wok)
  \/ \E n \in {Min(CopyBuf, BLen(coverIn))}, wok \in BOOLEAN : FallbackCoverToClient(n, wok)
  \/ FallbackReturn
  \/ \E wok \in BOOLEAN : ClientRelayStep(wok)
  \/ ClientRelayClose
  \/ \E wok, stale \in BOOLEAN, wkind \in {"closed", "other"} :
       ServerRelayStep(wok, wkind, stale)
  \/ \E failed \in BOOLEAN : GroupReturn(failed)
  \/ HandlerWrites = 0 /\ \E want \in ReadSizes : HandlerReadCached(want)
  \/ spc = "handler" /\ cache = Empty /\ HandlerWrites = 0 /\ ReadNext
  \/ \E p \in HandlerPayloads, ok \in BOOLEAN : HandlerWrite(p, ok)

\* one version-3 session: NewConnection, the client, the cover, the handler's reads
SpecSession == InitSession /\ [][SessionEnvNext \/ SessionNext]_vars

\* ------------------------------------------------------------------------
\* Properties of verifiedConn
\* ------------------------------------------------------------------------

\* the entries of toClient from index first on
LogFrom(first) == SubSeq(toClient, first, Len(toClient))

\* the payload (offset 9 onward) of a record
PayloadOf(frame) == BDrop(frame, tlsHmacHeaderSize)

RECURSIVE PayloadsOf(_)
PayloadsOf(log) ==
  IF log = <<>> THEN Empty ELSE BCat(PayloadOf(log[1].data), PayloadsOf(Tail(log)))

\* C2: every byte Read has returned is a payload byte of a record that
\* passed the hmacVerify check, in wire order: what was delivered is a
\* prefix of the accepted payloads (also after a Read that returned an error).
C2_OnlyVerifiedPayload == IsPrefix(delivered, accepted)

\* C3: every record emitted by Write, WriteBuffer or WriteVectorised is
\* accepted by a verifier seeded like the writer that has seen the records
\* before it, and the two chains are in the same state after each operation.
C3_WriterVerifierInStep ==
  /\ \A i \in 1..Len(toClient) : toClient[i].op \in DataOps => toClient[i].acc
  /\ hmacAdd = peerVerify

\* C8: a Write of L > 0 bytes hands ceil(L/16384) records to the connection,
\* all but the last with 16384 payload bytes and the last with the rest, the
\* payloads concatenate to the input, and the verifier accepts each in order.
C8_WriteFragmentation ==
  wlast.op = "Write" =>
    LET L == BLen(wlast.p)
        k == (L + MaxFragment - 1) \div MaxFragment
        recs == LogFrom(wlast.first)
    IN /\ Len(recs) = k
       /\ \A i \in 1..k :
            /\ recs[i].op = "Write"
            /\ BLen(PayloadOf(recs[i].data)) =
                 IF i < k THEN MaxFragment ELSE L - (k - 1) * MaxFragment
            /\ BTake(recs[i].data, tlsHeaderSize) =
                 DataHeader(BLen(PayloadOf(recs[i].data)))
            /\ recs[i].acc
       /\ PayloadsOf(recs) = wlast.p

\* C8 witness: a Write of 20000 bytes has produced records of 16384 and 3616
\* payload bytes.
C8_Witness ==
  /\ wlast.op = "Write"
  /\ BLen(wlast.p) = 20000
  /\ Len(LogFrom(wlast.first)) = 2
  /\ BLen(PayloadOf(LogFrom(wlast.first)[1].data)) = 16384
  /\ BLen(PayloadOf(LogFrom(wlast.first)[2].data)) = 3616
  /\ LogFrom(wlast.first)[2].acc

RECURSIVE FramesOf(_)
\* the records of a stream of whole records
FramesOf(stream) ==
  IF BLen(stream) < tlsHeaderSize THEN <<>>
  ELSE LET need == tlsHeaderSize + Uint16(BSub(stream, 3, tlsHeaderSize))
       IN <<BTake(stream, need)>> \o FramesOf(BDrop(stream, need))

RECURSIVE ConcatFrames(_, _)
\* the first k records of a sequence, concatenated
ConcatFrames(frames, k) ==
  IF k = 0 THEN Empty ELSE BCat(ConcatFrames(frames, k - 1), frames[k])

\* a record carries the tag of the first tunneled record: application_data,
\* longer than 9 bytes, bytes [5, 9) = HMAC(serverRandom . "C" . payload)[:4]
IsFirstTunneled(frame) ==
  /\ BLen(frame) > tlsHmacHeaderSize
  /\ BAt(frame, 0) = applicationData
  /\ BSub(frame, tlsHeaderSize, tlsHmacHeaderSize)
       = Sum4(HWrite(SeedVerify, BDrop(frame, tlsHmacHeaderSize)))

\* the bytes the client has received: the writes to conn that succeeded
RECURSIVE ClientGot(_)
ClientGot(log) ==
  IF log = <<>> THEN Empty
  ELSE BCat(IF log[1].ok THEN log[1].data ELSE Empty, ClientGot(Tail(log)))

HandlerInvoked == \E i \in 1..Len(events) : events[i] = "handler"
FellBack == \E i \in 1..Len(events) : events[i] = "fallback"
RelayEntered == c2s # "idle"

\* the handler has been invoked and has not called Read or Write yet
HandlerEntered ==
  /\ HandlerInvoked
  /\ nReads = 0
  /\ HandlerWrites = 0

\* the first client record is a ClientHello that carries the digest of
\* Password, and the first cover record is a ServerHello that gives
\* serverRandom and selects TLS 1.3
HellosPassed(hello, first) ==
  /\ BAt(hello, 0) = handshake /\ BAt(hello, tlsHeaderSize) = clientHello
  /\ BSub(hello, helloHmacIndex, helloHmacIndex + hmacSize) = HelloDigest(hello, Password)
  /\ BAt(first, 0) = handshake /\ BAt(first, tlsHeaderSize) = serverHello
  /\ serverRandom = BSub(first, serverRandomIndex, serverRandomIndex + tlsRandomSize)
  /\ isServerHelloSupportTLS13(first)

\* one of the client records after the first carries the tag of the first
\* tunneled record, and clientFirstFrame is its payload
FirstTunneledIn(recs) ==
  \E k \in 2..Len(recs) :
    /\ IsFirstTunneled(recs[k])
    /\ clientFirstFrame.data = BDrop(recs[k], tlsHmacHeaderSize)

\* C1: the handler is invoked only after, in this order, the first client
\* record passed verifyClientHello, the first cover record gave a server random
\* and passed isServerHelloSupportTLS13, and a client application_data record
\* matched hmacVerify; in every other outcome it is never invoked. (What was
\* sent is only ever appended to, so the records are looked at when the
\* handler is entered.)
C1_HandlerOnlyAfterHandshake ==
  /\ HandlerInvoked =>
       /\ events = <<"helloVerified", "serverRandom", "tls13", "matched", "handler">>
       /\ result = ""
       /\ clientFirstFrame.set
  /\ HandlerEntered =>
       /\ HellosPassed(FramesOf(clientSent)[1], FramesOf(coverSent)[1])
       /\ FirstTunneledIn(FramesOf(clientSent))
  /\ (FellBack \/ result # "") => ~HandlerInvoked /\ spc # "handler"

\* C1: the handler has been invoked
C1_Witness ==
  /\ spc = "handler"
  /\ events = <<"helloVerified", "serverRandom", "tls13", "matched", "handler">>

\* the records forwarded to the cover are the client records before the
\* first one that carries the tag of the first tunneled record, which is
\* clientFirstFrame and is not forwarded
ForwardedThenMatched(recs) ==
  LET fwd == {k \in 0..Len(recs) : toCover = ConcatFrames(recs, k)}
  IN /\ fwd # {}
     /\ \A k \in fwd :
          /\ \A j \in 2..k : ~IsFirstTunneled(recs[j])
          /\ handshakeFinished =>
               /\ k < Len(recs)
               /\ IsFirstTunneled(recs[k + 1])
               /\ clientFirstFrame.set
               /\ clientFirstFrame.data = BDrop(recs[k + 1], tlsHmacHeaderSize)

\* C4: every client record before the first tag-matching application_data
\* record is forwarded to the cover unchanged and in order; no byte of the
\* matching record is written to the cover and its bytes from offset 9 are
\* clientFirstFrame; the handler reads clientFirstFrame before any later payload.
C4_HandoffAtomicity ==
  RelayEntered =>
    /\ (spc # "handler" \/ HandlerEntered) => ForwardedThenMatched(FramesOf(clientSent))
    /\ spc = "handler" =>
         /\ handshakeFinished
         /\ IF cache # Empty
            THEN BCat(delivered, cache) = clientFirstFrame.data
            ELSE IsPrefix(clientFirstFrame.data, delivered)

\* C4: a record that does not match was forwarded, the next one matched, and
\* the handler has read clientFirstFrame
C4_Witness ==
  /\ spc = "handler"
  /\ BLen(toCover) > BLen(GoodHello)
  /\ cache = Empty
  /\ delivered = clientFirstFrame.data
  /\ BLen(delivered) = 3

\* C5: after a fallback the cover has received exactly the bytes the client
\* sent and the client exactly the bytes the cover sent, the hello records
\* once, nothing dropped, duplicated, reordered or rewritten.
C5_FallbackTransparency ==
  FellBack =>
    /\ IsPrefix(toCover, clientSent)
    /\ IsPrefix(ClientGot(toClient), coverSent)
    /\ \A i \in 1..Len(toClient) : toClient[i].op \in {"forward", "copy"}
    /\ spc = "fallback" =>
         /\ BCat(toCover, clientIn) = clientSent
         /\ BCat(ClientGot(toClient), coverIn) = coverSent
    /\ result = "nil" =>
         /\ toCover = clientSent
         /\ ClientGot(toClient) = coverSent

\* C5: a fallback after the ServerHello was forwarded has copied bytes both
\* ways and ended with both streams
C5_Witness ==
  /\ FellBack
  /\ events = <<"helloVerified", "fallback">>
  /\ result = "nil"
  /\ BLen(toCover) > BLen(GoodHello)
  /\ Len(toClient) > 1
  /\ toCover = clientSent
  /\ ClientGot(toClient) = coverSent

\* group.Run(ctx) can return
GroupRun == \E failed \in BOOLEAN : GroupReturn(failed)

\* C6: when either relay task has returned a non-success result the
\* orchestrator returns without waiting for the other direction.
C6_FastFail ==
  (spc = "relay" /\ (c2s = "err" \/ s2c = "err")) => ENABLED GroupRun

\* the number of Close calls of one kind
CloseCount(kind) == Cardinality({i \in 1..Len(closeCalls) : closeCalls[i] = kind})

\* C7: once the relay phase was entered and the session has gone on, the
\* cover connection was closed exactly once, and before the handler on the
\* tunneled path.
C7_ClosedExactlyOnce ==
  (RelayEntered /\ spc \in {"handler", "returned"}) => Len(closeCalls) = 1

\* C7 as amended: once the relay phase was entered and group.Run has
\* returned, handshakeConn.Close() has been called exactly once by the cleanup
\* and at most once more by the handoff; on the tunneled path both calls, the
\* handoff's first, precede the handler; before group.Run returns only the
\* handoff closes.
C7_ClosedAmended ==
  /\ (RelayEntered /\ spc \in {"handler", "returned"}) =>
       /\ CloseCount("cleanup") = 1
       /\ CloseCount("handoff") <= 1
       /\ Len(closeCalls) \in {1, 2}
  /\ spc = "handler" => closeCalls = <<"handoff", "cleanup">>
  /\ spc = "relay" => CloseCount("cleanup") = 0 /\ CloseCount("handoff") <= 1
  /\ ~RelayEntered => closeCalls = <<>>

\* C7: the tunneled path, with both Close calls made before the handler
C7_Witness ==
  /\ spc = "handler"
  /\ closeCalls = <<"handoff", "cleanup">>
  /\ ~clientClosed

\* the masked payloads of the first k rewritten records, concatenated
RECURSIVE MaskedUpTo(_)
MaskedUpTo(k) == IF k = 0 THEN Empty ELSE BCat(MaskedUpTo(k - 1), rewrites[k].p)

\* the masked payloads and tags of the first k rewritten records, concatenated
RECURSIVE MaskedAndTagsUpTo(_)
MaskedAndTagsUpTo(k) ==
  IF k = 0 THEN Empty
  ELSE BCat(BCat(MaskedAndTagsUpTo(k - 1), rewrites[k].p), rewrites[k].tag)

\* C10: the tag of the k-th rewritten record is the HMAC over
\* seed . p1 . t1 . ... . p(k-1) . t(k-1) . pk.
C10_RewriteChainFedTags ==
  \A k \in 1..Len(rewrites) :
    rewrites[k].tag
      = Sum4(HWrite(HWrite(SeedAdd, MaskedAndTagsUpTo(k - 1)), rewrites[k].p))

\* C10 as amended: copyByFrameWithModification appends the masked payload,
\* and not the tag, to the chain: the tag of the k-th rewritten record is the
\* HMAC over seed . p1 . ... . pk, and the chain is left at seed . p1 . ... . pn.
C10_RewriteChainAmended ==
  /\ \A k \in 1..Len(rewrites) :
       rewrites[k].tag = Sum4(HWrite(SeedAdd, MaskedUpTo(k)))
  /\ RelayEntered => hmacWrite = HWrite(SeedAdd, MaskedUpTo(Len(rewrites)))

\* C10: two cover records have been rewritten
C10_Witness ==
  /\ Len(rewrites) = 2
  /\ toClient[Len(toClient)].op = "rewrite"
  /\ BSub(toClient[Len(toClient)].data, tlsHeaderSize, tlsHmacHeaderSize) = rewrites[2].tag

\* the first record the handler has written through the verifiedConn
FirstWritten ==
  toClient[CHOOSE i \in 1..Len(toClient) :
             /\ toClient[i].op = "Write"
             /\ \A j \in 1..(i - 1) : toClient[j].op # "Write"].data

C12_WireOrderIsChainOrder ==
  \A i, j \in 1..Len(writers.emitted) :
    i < j => writers.emitted[i] < writers.emitted[j]

\* C13: the cover-to-client task reports success exactly when its terminating
\* error is a closed-or-cancelled one and it read handshakeFinished as true;
\* handshakeFinished is set before the handoff closes the cover connection, so
\* the closed error that close causes is observed with handshakeFinished true,
\* is laundered, and does not make the relay group fail.
C13_LaunderingSoundComplete ==
  /\ s2c = "ok" => s2cEnd.closed /\ s2cEnd.finished /\ handshakeFinished
  /\ s2c = "err" => ~(s2cEnd.closed /\ s2cEnd.finished)
  /\ (closeCalls # <<>> /\ closeCalls[1] = "handoff") => handshakeFinished
  /\ s2cEnd.cause = "handoff" => s2cEnd.finished /\ s2c = "ok"
  /\ (s2cEnd.cause = "handoff" /\ spc = "returned" /\ result = "handshake relay") => ctxDone

\* C13: the read of the cover-to-client task failed on the connection the
\* handoff closed, and the group went on to the handler
C13_Witness ==
  /\ spc = "handler"
  /\ s2c = "ok"
  /\ s2cEnd = S2CEnd("handoff", TRUE, TRUE)

\* records handed to the client by the verifiedConn, and by the relay
ConnOps == DataOps \cup {"alert"}
RelayOps == {"rewrite", "forward"}

\* C14: the handler is invoked only after both relay tasks have returned;
\* before that the verifiedConn's chains are not touched by it, and after it
\* the relay touches no chain and writes no record to the client: no record
\* of the relay follows a record of the verifiedConn, hmacVerify is stepped
\* by the client-to-cover task only before handoff and by Read only after,
\* the rewrite chain by the cover-to-client task only, hmacAdd by Write only.
C14_SingleOwnership ==
  /\ [](/\ spc = "handler" => c2s = "ok" /\ s2c = "ok"
        /\ \A i, j \in 1..Len(toClient) :
             (i < j /\ toClient[i].op \in ConnOps) => toClient[j].op \notin RelayOps
        /\ (RelayEntered /\ spc # "handler") =>
             hmacAdd = SeedIgnore /\ nReads = 0 /\ buffer = NilBuffer)
  /\ [][/\ (RelayEntered /\ hmacVerify' # hmacVerify) =>
             \/ c2s = "run" /\ spc # "handler"
             \/ spc = "handler" /\ rpc = "loop"
        /\ (RelayEntered /\ hmacWrite' # hmacWrite) => s2c = "run" /\ spc # "handler"
        /\ (RelayEntered /\ hmacAdd' # hmacAdd) => spc = "handler"
        /\ (RelayEntered /\ Len(toClient') > Len(toClient)) =>
             IF toClient'[Len(toClient')].op \in RelayOps
             THEN s2c = "run" /\ spc # "handler"
             ELSE spc = "handler"]_vars

\* C14: the relay has rewritten a record for the client, and after both tasks
\* returned the handler has written one through the verifiedConn
C14_Witness ==
  /\ spc = "handler"
  /\ c2s = "ok" /\ s2c = "ok"
  /\ \E i, j \in 1..Len(toClient) :
       i < j /\ toClient[i].op = "rewrite" /\ toClient[j].op = "Write"

\* hmacVerify after the first tunneled record with payload p:
\* seed(serverRandom . "C") . p . tag
AfterFirstTunneled(p) ==
  HWrite(HWrite(SeedVerify, p), Sum4(HWrite(SeedVerify, p)))

\* the chain h after one more record with payload q
ChainStep(h, q) == HWrite(HWrite(h, q), Sum4(HWrite(h, q)))

\* an application_data record that the probe tested and did not match is
\* among the records forwarded to the cover
ProbedBeforeMatch ==
  \E k \in 2..Len(FramesOf(clientSent)) :
     LET f == FramesOf(clientSent)[k]
     IN /\ BLen(f) > tlsHmacHeaderSize
        /\ BAt(f, 0) = applicationData
        /\ ~IsFirstTunneled(f)
        /\ BLen(toCover) >= BLen(ConcatFrames(FramesOf(clientSent), k))

\* C15: once copyByFrameUntilHMACMatches has matched a record with payload p,
\* hmacVerify is seed . p . tag whatever records were probed before, until
\* Read verifies a record; when the first record Read takes is accepted, with
\* payload q, it leaves hmacVerify at seed . p . tag . q . tag'.
C15_ProbeLeavesNoTrace ==
  clientFirstFrame.set =>
    LET after == AfterFirstTunneled(clientFirstFrame.data)
    IN /\ rlast.outcome = "none" => hmacVerify = after
       /\ (spc = "handler" /\ accepted \in TunnelPayloads /\ rlast.outcome = "data") =>
            hmacVerify = ChainStep(after, accepted)

\* C15: a record that did not match was probed, then one matched and the
\* handler has been handed the connection
C15_Witness ==
  /\ spc = "handler"
  /\ clientFirstFrame.set
  /\ rlast.outcome = "none"
  /\ ProbedBeforeMatch

\* C15: the handler's Read has accepted the client's second tunneled record
C15_SecondAccepted ==
  /\ spc = "handler"
  /\ accepted \in TunnelPayloads
  /\ rlast.outcome = "data"

\* the record at the head of what has arrived, while Read is in its loop
HeadFrame ==
  BTake(clientIn, tlsHeaderSize + Uint16(BSub(clientIn, 3, tlsHeaderSize)))

\* this step is Read taking an application_data record off the connection
\* with hmacIgnore set: the record is tested against hmacIgnore
IgnoreTested ==
  /\ rpc = "loop"
  /\ hmacIgnore # NoHash
  /\ BLen(clientIn) >= tlsHeaderSize
  /\ BLen(clientIn') < BLen(clientIn)
  /\ BAt(HeadFrame, 0) = applicationData
  /\ rlast'.outcome \notin {"bodyErr", "headerErr"}

\* the tested record matched and was discarded: Read stays in its loop
IgnoreDiscarded == IgnoreTested /\ rpc' = "loop"

\* C16: the test against hmacIgnore leaves the hmacIgnore chain as it was,
\* whether or not the record matches, and a discarded record leaves
\* hmacVerify unchanged.
C16_IgnoreTestReadOnly ==
  [][/\ IgnoreDiscarded => hmacIgnore' = hmacIgnore /\ hmacVerify' = hmacVerify
     /\ (IgnoreTested /\ ~IgnoreDiscarded) => hmacIgnore' \in {hmacIgnore, NoHash}]_vars

\* C16 as amended: verifyApplicationData with update = false feeds the
\* record's payload, and not its tag, into hmacIgnore; a record that matches
\* is discarded with hmacIgnore left advanced by its payload and hmacVerify,
\* the accepted payloads and the connection untouched; a record that does not
\* match sets hmacIgnore to nil and goes on to the hmacVerify check.
C16_IgnoreTestAmended ==
  [][/\ IgnoreDiscarded =>
          /\ hmacIgnore' = HWrite(hmacIgnore, BDrop(HeadFrame, tlsHmacHeaderSize))
          /\ BSub(HeadFrame, tlsHeaderSize, tlsHmacHeaderSize) = Sum4(hmacIgnore')
          /\ UNCHANGED <<hmacVerify, accepted, delivered, toClient>>
          /\ rlast'.outcome = "ignored"
     /\ (IgnoreTested /\ ~IgnoreDiscarded) =>
          /\ hmacIgnore' = NoHash
          /\ rlast'.outcome \in {"data", "verifyFail"}]_vars

\* C16: a record has matched hmacIgnore and was discarded; the chain has moved
C16_Witness ==
  /\ rlast.outcome = "ignored"
  /\ hmacIgnore \notin {NoHash, SeedIgnore}
  /\ hmacVerify = SeedVerify

\* this step is Read taking an application_data record off the connection
\* with hmacIgnore nil
VerifyOnly ==
  /\ rpc = "loop"
  /\ hmacIgnore = NoHash
  /\ BLen(clientIn) >= tlsHeaderSize
  /\ BLen(clientIn') < BLen(clientIn)
  /\ BAt(HeadFrame, 0) = applicationData
  /\ rlast'.outcome \notin {"bodyErr", "headerErr"}

\* C17: once a record has matched hmacIgnore and was discarded, hmacIgnore is
\* disabled, so that every later record is verified against hmacVerify.
C17_IgnoreOneShot == rlast.outcome = "ignored" => hmacIgnore = NoHash

\* C17 as amended: hmacIgnore is disabled by the first application_data
\* record that does not match it and never comes back; a record that matches
\* it is discarded and leaves it enabled, so a run of matching records is
\* discarded whole; with hmacIgnore disabled every application_data record,
\* one tagged by the ignore chain included, is verified against hmacVerify
\* and is answered with an alert and an error when it does not match.
C17_IgnoreOneShotAmended ==
  /\ [](/\ rlast.outcome = "ignored" => hmacIgnore # NoHash
        /\ rlast.outcome \in {"data", "verifyFail"} => hmacIgnore = NoHash)
  /\ [][/\ hmacIgnore = NoHash => hmacIgnore' = NoHash
        /\ IgnoreDiscarded => hmacIgnore' # NoHash
        /\ VerifyOnly =>
             LET ver == verifyApplicationData(HeadFrame, hmacVerify, TRUE)
             IN /\ hmacVerify' = ver.h
                /\ rlast'.outcome = (IF ver.ok THEN "data" ELSE "verifyFail")
                /\ ~ver.ok => rlast'.called /\ accepted' = accepted]_vars

\* C17: a record was accepted, which disabled hmacIgnore; then a record tagged
\* by the ignore chain arrived and was rejected with an alert
C17_Witness ==
  /\ rlast.outcome = "verifyFail"
  /\ rlast.called
  /\ accepted # Empty
  /\ peerIgn # SeedIgnore
  /\ hmacIgnore = NoHash
  /\ clientIn = Empty

\* C17: two records in a row matched hmacIgnore and were discarded
C17_TwoDiscarded ==
  /\ rlast.outcome = "ignored"
  /\ nPeer = 2
  /\ clientIn = Empty
  /\ hmacIgnore = peerIgn

\* ------------------------------------------------------------------------
\* A writer's stream delivered with faults
\* ------------------------------------------------------------------------

\* records the writer chains
MaxStream == 3

\* payloads of the writer's stream
StreamPayloads == {Run(5, 1), BFrom(<<6, 7>>)}

\* sizes of the buffer handed to Read: shorter and longer than a record
StreamReadSizes == {4, 16}

\* the record the writer makes of payload p on chain h
StreamRecord(h, p) == DataRecord(Sum4(HWrite(h, p)), p)

RECURSIVE InSequence(_, _)
\* how many leading records of recs are, in order, the records of chain h
InSequence(recs, h) ==
  IF recs = <<>> THEN 0
  ELSE IF recs[1] = StreamRecord(h, PayloadOf(recs[1]))
       THEN 1 + InSequence(Tail(recs), ChainStep(h, PayloadOf(recs[1])))
       ELSE 0

RECURSIVE ChainOver(_, _)
\* chain h after the records recs
ChainOver(recs, h) ==
  IF recs = <<>> THEN h ELSE ChainOver(Tail(recs), ChainStep(h, PayloadOf(recs[1])))

\* so far every record the writer chained was delivered, once and in order
NoFaultYet ==
  /\ InSequence(FramesOf(clientSent), SeedVerify) = Len(FramesOf(clientSent))
  /\ peerAdd = ChainOver(FramesOf(clientSent), SeedVerify)

\* what was delivered up to the first record out of sequence
InSequenceBytes ==
  ConcatFrames(FramesOf(clientSent), InSequence(FramesOf(clientSent), SeedVerify))

RECURSIVE FramePayloads(_)
FramePayloads(recs) ==
  IF recs = <<>> THEN Empty ELSE BCat(PayloadOf(recs[1]), FramePayloads(Tail(recs)))

\* the writer chains p and the record is delivered
StreamSend(p) == nPeer < MaxStream /\ PeerSendData(p)

\* the writer chains p and the record is lost: the one fault of the stream
StreamDrop(p) ==
  /\ nPeer < MaxStream
  /\ NoFaultYet
  /\ ~clientClosed
  /\ peerAdd' = ChainStep(peerAdd, p)
  /\ nPeer' = nPeer + 1
  /\ UNCHANGED <<connVars, wireVars, readVars, peerIgn, peerVerify, clientSent, wlast,
                 writers, sessVars>>

\* the record delivered last is delivered once more
StreamDuplicate ==
  /\ nPeer < MaxStream
  /\ NoFaultYet
  /\ ~clientClosed
  /\ FramesOf(clientSent) # <<>>
  /\ LET rec == FramesOf(clientSent)[Len(FramesOf(clientSent))]
     IN /\ clientIn' = BCat(clientIn, rec)
        /\ clientSent' = BCat(clientSent, rec)
  /\ nPeer' = nPeer + 1
  /\ UNCHANGED <<connVars, clientClosed, toClient, readVars, peerAdd, peerIgn, peerVerify,
                 wlast, writers, sessVars>>

\* the writer chains p and then q, and the two records arrive q first
StreamSwap(p, q) ==
  /\ nPeer + 1 < MaxStream
  /\ NoFaultYet
  /\ ~clientClosed
  /\ LET first == StreamRecord(peerAdd, p)
         second == StreamRecord(ChainStep(peerAdd, p), q)
     IN /\ clientIn' = BCat(clientIn, BCat(second, first))
        /\ clientSent' = BCat(clientSent, BCat(second, first))
        /\ peerAdd' = ChainStep(ChainStep(peerAdd, p), q)
  /\ nPeer' = nPeer + 2
  /\ UNCHANGED <<connVars, clientClosed, toClient, readVars, peerIgn, peerVerify, wlast,
                 writers, sessVars>>

StreamNext ==
  \/ \E p \in StreamPayloads : StreamSend(p)
  \/ \E p \in StreamPayloads : StreamDrop(p)
  \/ StreamDuplicate
  \/ \E p, q \in StreamPayloads : StreamSwap(p, q)
  \/ \E cut \in CutRecords : PeerClose(cut)

StreamReadNext ==
  \/ \E want \in StreamReadSizes : ReadCall(want)
  \/ \E randOK, writeOK \in BOOLEAN, r \in RandBytes : ReadHeaderError(randOK, writeOK, r)
  \/ ReadBodyError
  \/ \E randOK, writeOK \in BOOLEAN, r \in RandBytes : ReadRecord(randOK, writeOK, r)

\* a verifiedConn without hmacIgnore, seeded like the writer whose stream it reads
InitStream == InitConnAs("stream") /\ hmacIgnore = NoHash

SpecStream == InitStream /\ [][StreamNext \/ StreamReadNext]_vars

\* this step is Read taking a whole record off the connection
RecordTaken ==
  /\ rpc = "loop"
  /\ BLen(clientIn) >= tlsHeaderSize
  /\ BLen(clientIn') < BLen(clientIn)
  /\ rlast'.outcome \notin {"bodyErr", "headerErr"}

\* C18: of a writer's stream delivered with one record dropped, duplicated
\* or swapped with its successor, Read accepts exactly the records before
\* the first one out of sequence: each of those is accepted, the first
\* record out of sequence is rejected with a verification failure, and every
\* record taken after it is rejected as well; the accepted payloads are a
\* prefix of the in-sequence ones.
C18_MissedRecordDivergence ==
  /\ [](IsPrefix(accepted, FramePayloads(FramesOf(InSequenceBytes))))
  /\ [][RecordTaken =>
          IF BLen(clientSent) - BLen(clientIn) < BLen(InSequenceBytes)
          THEN rlast'.outcome = "data"
          ELSE /\ rlast'.outcome = "verifyFail"
               /\ rlast'.err = "application data verification failed"
               /\ accepted' = accepted]_vars

\* payload lengths of cover records: extractFrame delivers any 16-bit length
RewriteLengths == {0, 1, MaxFragment, 65531, 65532, 65535}

\* a cover application_data record with n payload bytes
CoverRecordOfLength(n) == BCat(BCat(BFrom(<<applicationData, 3, 3>>), PutUint16(n)), Run(7, n))

\* C19: the length field of every record WriteBuffer or WriteVectorised hands
\* to the connection is the payload length plus 4 and equals the number of
\* bytes that follow the 5-byte header; the length field the rewrite gives a
\* cover record of n payload bytes is n + 4, for every 16-bit n.
C19_LengthInvariance ==
  /\ \A i \in 1..Len(toClient) :
       toClient[i].op \in {"WriteBuffer", "WriteVectorised"} =>
         /\ Uint16(BSub(toClient[i].data, 3, tlsHeaderSize)) =
              BLen(PayloadOf(toClient[i].data)) + hmacSize
         /\ Uint16(BSub(toClient[i].data, 3, tlsHeaderSize)) =
              BLen(toClient[i].data) - tlsHeaderSize
  /\ \A n \in RewriteLengths :
       Uint16(rewriteLength(CoverRecordOfLength(n))) = n + hmacSize

\* C19, the part on WriteBuffer and WriteVectorised alone: the declared length
\* is the number of bytes after the header
C19_WriteLength ==
  \A i \in 1..Len(toClient) :
    toClient[i].op \in {"WriteBuffer", "WriteVectorised"} =>
      Uint16(BSub(toClient[i].data, 3, tlsHeaderSize)) = BLen(toClient[i].data) - tlsHeaderSize

\* C20: when the underlying write of a record of a Write call fails, Write
\* returns an error with n = 0 and hands no further record of that call to
\* the connection; it returns n = len(p) with a nil error only when every
\* record of the call was written.
C20_WriteFailureTerminal ==
  wlast.op = "Write" =>
    LET recs == LogFrom(wlast.first)
    IN /\ (\E i \in 1..Len(recs) : ~recs[i].ok) => wlast.err /\ wlast.n = 0
       /\ \A i \in 1..Len(recs) : ~recs[i].ok => i = Len(recs)
       /\ (~wlast.err /\ wlast.n = BLen(wlast.p)) => \A i \in 1..Len(recs) : recs[i].ok

\* C20, the part that holds: Write returns n = 0 with the error of the write
\* of its last record, and n = len(p) with nil when that write succeeded
C20_LastWriteDecides ==
  (wlast.op = "Write" /\ wlast.p # Empty) =>
    LET recs == LogFrom(wlast.first)
    IN /\ wlast.err <=> ~recs[Len(recs)].ok
       /\ wlast.n = (IF wlast.err THEN 0 ELSE BLen(wlast.p))
       /\ Len(recs) = Len(Fragments(wlast.p))

====
